---- MODULE Spec2Model ----
(***************************************************************************)
(* Model of .eleventy.js: the opportunities data loader and the four       *)
(* template filters formatDate, isClosingSoon, isExpired and truncate.     *)
(*                                                                         *)
(* JavaScript values are tagged records, strings are sequences of          *)
(* one-character strings, and a time value (milliseconds since the epoch)  *)
(* is kept as whole days plus milliseconds of the day, so that a deadline  *)
(* decades away and a one-millisecond difference are both exact.           *)
(***************************************************************************)
EXTENDS Integers, Sequences, FiniteSets, TLC

(***************************************************************************)
(* JavaScript values                                                       *)
(***************************************************************************)
Undefined == [t |-> "undefined"]
Null      == [t |-> "null"]
Sym       == [t |-> "symbol"]
Str(cs)   == [t |-> "string", v |-> cs]
Num(n)    == [t |-> "number", v |-> n]
Bool(b)   == [t |-> "boolean", v |-> b]
Arr(xs)   == [t |-> "array", v |-> xs]
\* an object is the sequence of its <<key, value>> members, in insertion order
Obj(ms)   == [t |-> "object", v |-> ms]

\* completion records: a normal return or an exception leaving the function
Return(v) == [kind |-> "return", value |-> v]
Throw(e)  == [kind |-> "throw", value |-> e]

\* ToBoolean, as applied by the `!x` guards of the filters
ToBoolean(x) ==
    CASE x.t = "undefined" -> FALSE
      [] x.t = "null"      -> FALSE
      [] x.t = "boolean"   -> x.v
      [] x.t = "number"    -> x.v # 0
      [] x.t = "string"    -> x.v # << >>
      [] OTHER             -> TRUE

(***************************************************************************)
(* Decimal digits                                                          *)
(***************************************************************************)
Digits == <<"0", "1", "2", "3", "4", "5", "6", "7", "8", "9">>

IsDigit(c) == \E i \in 1..10 : Digits[i] = c

DigitVal(c) == (CHOOSE i \in 1..10 : Digits[i] = c) - 1

AllDigits(cs) == \A i \in 1..Len(cs) : IsDigit(cs[i])

RECURSIVE DecVal(_)
DecVal(cs) ==
    IF cs = << >> THEN 0
    ELSE 10 * DecVal(SubSeq(cs, 1, Len(cs) - 1)) + DigitVal(cs[Len(cs)])

RECURSIVE DecStr(_)
DecStr(n) ==
    IF n < 10 THEN <<Digits[n + 1]>>
    ELSE DecStr(n \div 10) \o <<Digits[(n % 10) + 1]>>

RECURSIVE Pad(_, _)
Pad(cs, width) == IF Len(cs) >= width THEN cs ELSE Pad(<<"0">> \o cs, width)

(***************************************************************************)
(* Time values and the calendar                                            *)
(***************************************************************************)
\* 1000 * 60 * 60 * 24, the divisor of isClosingSoon
MS_PER_DAY == 1000 * 60 * 60 * 24

NaNTime == [valid |-> FALSE, day |-> 0, ms |-> 0]

\* the time value day * MS_PER_DAY + ms, normalised to 0 <= ms < MS_PER_DAY
Time(day, ms) ==
    [valid |-> TRUE, day |-> day + (ms \div MS_PER_DAY), ms |-> ms % MS_PER_DAY]

IsLeap(y) == (y % 4 = 0 /\ y % 100 # 0) \/ y % 400 = 0

DaysInMonth(y, m) ==
    IF m = 2 THEN (IF IsLeap(y) THEN 29 ELSE 28)
    ELSE IF m \in {4, 6, 9, 11} THEN 30 ELSE 31

\* days from 1970-01-01 to the civil date y-m-d (proleptic Gregorian)
DaysFromCivil(y, m, d) ==
    LET yy  == IF m <= 2 THEN y - 1 ELSE y
        era == yy \div 400
        yoe == yy - era * 400
        mp  == IF m > 2 THEN m - 3 ELSE m + 9
        doy == ((153 * mp + 2) \div 5) + d - 1
        doe == yoe * 365 + (yoe \div 4) - (yoe \div 100) + doy
    IN  era * 146097 + doe - 719468

\* the civil date of a day number
CivilFromDays(z) ==
    LET zz  == z + 719468
        era == zz \div 146097
        doe == zz - era * 146097
        yoe == (doe - (doe \div 1460) + (doe \div 36524) - (doe \div 146096)) \div 365
        doy == doe - (365 * yoe + (yoe \div 4) - (yoe \div 100))
        mp  == (5 * doy + 2) \div 153
        d   == doy - ((153 * mp + 2) \div 5) + 1
        m   == IF mp < 10 THEN mp + 3 ELSE mp - 9
        y   == yoe + era * 400 + (IF m <= 2 THEN 1 ELSE 0)
    IN  [year |-> y, month |-> m, day |-> d]

(***************************************************************************)
(* Date.parse on the ISO forms YYYY-MM-DD (UTC midnight) and               *)
(* YYYY-MM-DDTHH:mm:ss.sssZ; every other string here is one no parser      *)
(* accepts, and gives NaN.                                                 *)
(***************************************************************************)
ParseDatePart(cs) ==
    IF /\ Len(cs) = 10
       /\ cs[5] = "-" /\ cs[8] = "-"
       /\ AllDigits(SubSeq(cs, 1, 4))
       /\ AllDigits(SubSeq(cs, 6, 7))
       /\ AllDigits(SubSeq(cs, 9, 10))
    THEN LET y == DecVal(SubSeq(cs, 1, 4))
             m == DecVal(SubSeq(cs, 6, 7))
             d == DecVal(SubSeq(cs, 9, 10))
         IN  IF m \in 1..12 /\ d >= 1 /\ d <= DaysInMonth(y, m)
             THEN Time(DaysFromCivil(y, m, d), 0)
             ELSE NaNTime
    ELSE NaNTime

ParseTimePart(cs) ==
    IF /\ Len(cs) = 14
       /\ cs[1] = "T" /\ cs[4] = ":" /\ cs[7] = ":" /\ cs[10] = "." /\ cs[14] = "Z"
       /\ AllDigits(SubSeq(cs, 2, 3))
       /\ AllDigits(SubSeq(cs, 5, 6))
       /\ AllDigits(SubSeq(cs, 8, 9))
       /\ AllDigits(SubSeq(cs, 11, 13))
    THEN LET h  == DecVal(SubSeq(cs, 2, 3))
             mi == DecVal(SubSeq(cs, 5, 6))
             s  == DecVal(SubSeq(cs, 8, 9))
             f  == DecVal(SubSeq(cs, 11, 13))
         IN  IF h <= 23 /\ mi <= 59 /\ s <= 59
             THEN Time(0, ((h * 60 + mi) * 60 + s) * 1000 + f)
             ELSE NaNTime
    ELSE NaNTime

DateParse(cs) ==
    IF Len(cs) = 10 THEN ParseDatePart(cs)
    ELSE IF Len(cs) = 24
    THEN LET dp == ParseDatePart(SubSeq(cs, 1, 10))
             tp == ParseTimePart(SubSeq(cs, 11, 24))
         IN  IF dp.valid /\ tp.valid THEN Time(dp.day, tp.ms) ELSE NaNTime
    ELSE NaNTime

(***************************************************************************)
(* new Date(value): the conversions of the Date constructor                *)
(***************************************************************************)
ObjectObject ==
    <<"[", "o", "b", "j", "e", "c", "t", " ", "O", "b", "j", "e", "c", "t", "]">>

\* ToString of a value; "throw" stands for the TypeError of a Symbol
RECURSIVE ToStr(_)
RECURSIVE Join(_)
ToStr(x) ==
    CASE x.t = "string"    -> Return(x.v)
      [] x.t = "number"    -> Return(IF x.v < 0 THEN <<"-">> \o DecStr(0 - x.v)
                                                ELSE DecStr(x.v))
      [] x.t = "boolean"   -> Return(IF x.v THEN <<"t", "r", "u", "e">>
                                            ELSE <<"f", "a", "l", "s", "e">>)
      [] x.t = "undefined" -> Return(<<"u", "n", "d", "e", "f", "i", "n", "e", "d">>)
      [] x.t = "null"      -> Return(<<"n", "u", "l", "l">>)
      [] x.t = "object"    -> Return(ObjectObject)
      [] x.t = "array"     -> Join(x.v)
      [] OTHER             -> Throw("TypeError")

\* Array.prototype.join(","): null and undefined elements give the empty string
Join(xs) ==
    IF xs = << >> THEN Return(<< >>)
    ELSE LET first == IF Head(xs).t \in {"undefined", "null"} THEN Return(<< >>)
                      ELSE ToStr(Head(xs))
             rest  == Join(Tail(xs))
         IN  IF first.kind = "throw" THEN first
             ELSE IF rest.kind = "throw" THEN rest
             ELSE IF Len(xs) = 1 THEN first
             ELSE Return(first.value \o <<",">> \o rest.value)

\* new Date(x): a completion holding the time value, or the TypeError
NewDate(x) ==
    CASE x.t = "string"    -> Return(DateParse(x.v))
      [] x.t = "number"    -> Return(Time(0, x.v))
      [] x.t = "boolean"   -> Return(Time(0, IF x.v THEN 1 ELSE 0))
      [] x.t = "null"      -> Return(Time(0, 0))
      [] x.t = "undefined" -> Return(NaNTime)
      [] x.t = "symbol"    -> Throw("TypeError")
      [] OTHER             -> LET p == ToStr(x)
                              IN  IF p.kind = "throw" THEN p
                                  ELSE Return(DateParse(p.value))

(***************************************************************************)
(* toLocaleDateString("en-US", {year: "numeric", month: "short",           *)
(* day: "numeric"}) in a zone tzMinutes east of UTC                        *)
(***************************************************************************)
MonthShort ==
    << <<"J", "a", "n">>, <<"F", "e", "b">>, <<"M", "a", "r">>, <<"A", "p", "r">>,
       <<"M", "a", "y">>, <<"J", "u", "n">>, <<"J", "u", "l">>, <<"A", "u", "g">>,
       <<"S", "e", "p">>, <<"O", "c", "t">>, <<"N", "o", "v">>, <<"D", "e", "c">> >>

toLocaleDateString(date, tzMinutes) ==
    LET local == Time(date.day, date.ms + tzMinutes * 60 * 1000)
        c     == CivilFromDays(local.day)
    IN  MonthShort[c.month] \o <<" ">> \o DecStr(c.day) \o <<",", " ">> \o DecStr(c.year)

(***************************************************************************)
(* The filters                                                             *)
(***************************************************************************)
NoDeadline == <<"N", "o", " ", "d", "e", "a", "d", "l", "i", "n", "e">>

\* formatDate without the isNaN test: an invalid date formats as "Invalid Date"
formatDate_noNaNCheck(dateStr, tzMinutes) ==
    IF ~ToBoolean(dateStr) THEN Return(Str(NoDeadline))
    ELSE LET date == NewDate(dateStr)
         IN  IF date.kind = "throw" THEN Return(dateStr)
             ELSE IF ~date.value.valid
                  THEN Return(Str(<<"I", "n", "v", "a", "l", "i", "d", " ", "D", "a", "t", "e">>))
             ELSE Return(Str(toLocaleDateString(date.value, tzMinutes)))

formatDate(dateStr, tzMinutes) ==
    IF ~ToBoolean(dateStr) THEN Return(Str(NoDeadline))
    ELSE LET date == NewDate(dateStr)
         IN  IF date.kind = "throw" THEN Return(dateStr)
             ELSE IF ~date.value.valid THEN Return(dateStr)
             ELSE Return(Str(toLocaleDateString(date.value, tzMinutes)))

\* the window of isClosingSoon, in days
ClosingDays == 14

\* (deadline - now) / MS_PER_DAY as the exact rational whole + frac / MS_PER_DAY,
\* 0 <= frac < MS_PER_DAY. The double the code computes compares with 0 and
\* with 14 as the exact quotient does: the time values are integers below 2^53
\* and one millisecond is 1/86400000 of a day, far above the spacing of
\* doubles near 14.
DiffDays(deadline, now) ==
    LET d == Time(deadline.day - now.day, deadline.ms - now.ms)
    IN  [whole |-> d.day, frac |-> d.ms]

\* the test diffDays > 0 left out
GreaterThanZero_always(q) == TRUE

GreaterThanZero(q) == q.whole > 0 \/ (q.whole = 0 /\ q.frac > 0)

\* diffDays < 14 in place of diffDays <= 14
AtMost_strict(q, k) == q.whole < k

AtMost(q, k) == q.whole < k \/ (q.whole = k /\ q.frac = 0)

isClosingSoon(dateStr, now) ==
    IF ~ToBoolean(dateStr) THEN Return(Bool(FALSE))
    ELSE LET deadline == NewDate(dateStr)
         IN  IF deadline.kind = "throw" THEN Return(Bool(FALSE))
             ELSE IF ~deadline.value.valid THEN Return(Bool(FALSE))
             ELSE LET diffDays == DiffDays(deadline.value, now)
                  IN  Return(Bool(GreaterThanZero(diffDays)
                                  /\ AtMost(diffDays, ClosingDays)))

\* deadline < now on two valid time values
Before(a, b) == a.day < b.day \/ (a.day = b.day /\ a.ms < b.ms)

\* deadline <= now in place of deadline < now
isExpired_notStrict(dateStr, now) ==
    IF ~ToBoolean(dateStr) THEN Return(Bool(FALSE))
    ELSE LET deadline == NewDate(dateStr)
         IN  IF deadline.kind = "throw" THEN Return(Bool(FALSE))
             ELSE IF ~deadline.value.valid THEN Return(Bool(FALSE))
             ELSE Return(Bool(~Before(now, deadline.value)))

\* deadline > now in place of deadline < now
isExpired_reversed(dateStr, now) ==
    IF ~ToBoolean(dateStr) THEN Return(Bool(FALSE))
    ELSE LET deadline == NewDate(dateStr)
         IN  IF deadline.kind = "throw" THEN Return(Bool(FALSE))
             ELSE IF ~deadline.value.valid THEN Return(Bool(FALSE))
             ELSE Return(Bool(Before(now, deadline.value)))

isExpired(dateStr, now) ==
    IF ~ToBoolean(dateStr) THEN Return(Bool(FALSE))
    ELSE LET deadline == NewDate(dateStr)
         IN  IF deadline.kind = "throw" THEN Return(Bool(FALSE))
             ELSE IF ~deadline.value.valid THEN Return(Bool(FALSE))
             ELSE Return(Bool(Before(deadline.value, now)))

\* the default of truncate's second parameter
DefaultLength == 200

\* String.prototype.substring(start, end): both clamped to 0..length, swapped
\* when start > end
substring(cs, start, end) ==
    LET clamp(i) == IF i < 0 THEN 0 ELSE IF i > Len(cs) THEN Len(cs) ELSE i
        a == clamp(start)
        b == clamp(end)
        lo == IF a <= b THEN a ELSE b
        hi == IF a <= b THEN b ELSE a
    IN  SubSeq(cs, lo + 1, hi)

Ellipsis == <<".", ".", ".">>

\* str.length < length in place of str.length <= length
truncate_strict(str, length) ==
    LET limit == IF length.t = "undefined" THEN DefaultLength ELSE length.v
    IN  IF ~ToBoolean(str) THEN Return(Str(<< >>))
        ELSE IF str.t \in {"string", "array"} /\ Len(str.v) < limit THEN Return(str)
        ELSE IF str.t = "string"
             THEN Return(Str(substring(str.v, 0, limit) \o Ellipsis))
             ELSE Throw("TypeError")

\* the test of the length left out: the ellipsis is always appended
truncate_noGuard(str, length) ==
    LET limit == IF length.t = "undefined" THEN DefaultLength ELSE length.v
    IN  IF ~ToBoolean(str) THEN Return(Str(<< >>))
        ELSE IF str.t = "string"
             THEN Return(Str(substring(str.v, 0, limit) \o Ellipsis))
             ELSE Throw("TypeError")

\* truncate(str, length = 200); length is Undefined when the argument is not passed
truncate(str, length) ==
    LET limit == IF length.t = "undefined" THEN DefaultLength ELSE length.v
    IN  IF ~ToBoolean(str) THEN Return(Str(<< >>))
        \* str.length is a number for strings and arrays and undefined for
        \* the rest; undefined <= limit is false
        ELSE IF str.t \in {"string", "array"} /\ Len(str.v) <= limit THEN Return(str)
        \* only strings have a substring method
        ELSE IF str.t = "string"
             THEN Return(Str(substring(str.v, 0, limit) \o Ellipsis))
             ELSE Throw("TypeError")

(***************************************************************************)
(* JSON text: JSON.parse on the grammar of null, true, false, integers,    *)
(* strings without escapes, arrays and objects, with blanks between        *)
(* tokens; a text outside the grammar is a SyntaxError                     *)
(***************************************************************************)
Quote == "\""

Fail == [ok |-> FALSE, value |-> Undefined, next |-> 0]

Ok(v, next) == [ok |-> TRUE, value |-> v, next |-> next]

RECURSIVE SkipWs(_, _)
SkipWs(cs, i) == IF i <= Len(cs) /\ cs[i] \in {" ", "\n"} THEN SkipWs(cs, i + 1) ELSE i

\* the index of the first character from i on that is not a digit
RECURSIVE SkipDigits(_, _)
SkipDigits(cs, i) == IF i <= Len(cs) /\ IsDigit(cs[i]) THEN SkipDigits(cs, i + 1) ELSE i

\* the index of the first quote from i on, or Len(cs) + 1
RECURSIVE FindQuote(_, _)
FindQuote(cs, i) == IF i <= Len(cs) /\ cs[i] # Quote THEN FindQuote(cs, i + 1) ELSE i

HasAt(cs, i, word) ==
    /\ i + Len(word) - 1 <= Len(cs)
    /\ SubSeq(cs, i, i + Len(word) - 1) = word

\* a string token starting at the quote cs[i]; the result is the character sequence
ParseString(cs, i) ==
    LET j == FindQuote(cs, i + 1)
    IN  IF j > Len(cs) THEN Fail
        ELSE IF \E k \in (i + 1)..(j - 1) : cs[k] \in {"\\", "\n"} THEN Fail
        ELSE Ok(SubSeq(cs, i + 1, j - 1), j + 1)

\* -? (0 | [1-9][0-9]*)
ParseNumber(cs, i) ==
    LET neg == cs[i] = "-"
        b   == IF neg THEN i + 1 ELSE i
        e   == SkipDigits(cs, b)
    IN  IF e = b THEN Fail
        ELSE IF cs[b] = "0" /\ e > b + 1 THEN Fail
        ELSE LET n == DecVal(SubSeq(cs, b, e - 1))
             IN  Ok(Num(IF neg THEN 0 - n ELSE n), e)

RECURSIVE ParseValue(_, _)
RECURSIVE ParseElements(_, _, _)
RECURSIVE ParseMembers(_, _, _)
\* the value starting at cs[i]
ParseValue(cs, i) ==
    IF i > Len(cs) THEN Fail
    ELSE CASE cs[i] = Quote ->
                LET r == ParseString(cs, i)
                IN  IF r.ok THEN Ok(Str(r.value), r.next) ELSE Fail
           [] cs[i] = "[" ->
                LET j == SkipWs(cs, i + 1)
                IN  IF j <= Len(cs) /\ cs[j] = "]" THEN Ok(Arr(<< >>), j + 1)
                    ELSE ParseElements(cs, j, << >>)
           [] cs[i] = "{" ->
                LET j == SkipWs(cs, i + 1)
                IN  IF j <= Len(cs) /\ cs[j] = "}" THEN Ok(Obj(<< >>), j + 1)
                    ELSE ParseMembers(cs, j, << >>)
           [] cs[i] = "-" \/ IsDigit(cs[i]) -> ParseNumber(cs, i)
           [] HasAt(cs, i, <<"n", "u", "l", "l">>) -> Ok(Null, i + 4)
           [] HasAt(cs, i, <<"t", "r", "u", "e">>) -> Ok(Bool(TRUE), i + 4)
           [] HasAt(cs, i, <<"f", "a", "l", "s", "e">>) -> Ok(Bool(FALSE), i + 5)
           [] OTHER -> Fail

\* the elements of an array from cs[i] on, after those of acc
ParseElements(cs, i, acc) ==
    LET r == ParseValue(cs, i)
    IN  IF ~r.ok THEN Fail
        ELSE LET j == SkipWs(cs, r.next)
             IN  IF j > Len(cs) THEN Fail
                 ELSE IF cs[j] = "]" THEN Ok(Arr(Append(acc, r.value)), j + 1)
                 ELSE IF cs[j] = ","
                      THEN ParseElements(cs, SkipWs(cs, j + 1), Append(acc, r.value))
                 ELSE Fail

\* the members of an object from cs[i] on, after those of acc
ParseMembers(cs, i, acc) ==
    IF i > Len(cs) \/ cs[i] # Quote THEN Fail
    ELSE LET k == ParseString(cs, i)
         IN  IF ~k.ok THEN Fail
             ELSE LET c == SkipWs(cs, k.next)
                  IN  IF c > Len(cs) \/ cs[c] # ":" THEN Fail
                      ELSE LET r == ParseValue(cs, SkipWs(cs, c + 1))
                           IN  IF ~r.ok THEN Fail
                               ELSE LET j    == SkipWs(cs, r.next)
                                        acc2 == Append(acc, <<k.value, r.value>>)
                                    IN  IF j > Len(cs) THEN Fail
                                        ELSE IF cs[j] = "}" THEN Ok(Obj(acc2), j + 1)
                                        ELSE IF cs[j] = ","
                                             THEN ParseMembers(cs, SkipWs(cs, j + 1), acc2)
                                        ELSE Fail

JSONParse(cs) ==
    LET r == ParseValue(cs, SkipWs(cs, 1))
    IN  IF r.ok /\ SkipWs(cs, r.next) = Len(cs) + 1 THEN Return(r.value)
        ELSE Throw("SyntaxError")

\* the compact JSON text of a value, as the data file's writer produces it
RECURSIVE Stringify(_)
RECURSIVE StringifyAll(_, _)
Stringify(x) ==
    CASE x.t = "string"  -> <<Quote>> \o x.v \o <<Quote>>
      [] x.t = "number"  -> IF x.v < 0 THEN <<"-">> \o DecStr(0 - x.v) ELSE DecStr(x.v)
      [] x.t = "boolean" -> IF x.v THEN <<"t", "r", "u", "e">>
                                   ELSE <<"f", "a", "l", "s", "e">>
      [] x.t = "null"    -> <<"n", "u", "l", "l">>
      [] x.t = "array"   -> <<"[">> \o StringifyAll(x.v, FALSE) \o <<"]">>
      [] x.t = "object"  -> <<"{">> \o StringifyAll(x.v, TRUE) \o <<"}">>

StringifyAll(xs, members) ==
    IF xs = << >> THEN << >>
    ELSE LET one == IF members
                    THEN <<Quote>> \o Head(xs)[1] \o <<Quote, ":">> \o Stringify(Head(xs)[2])
                    ELSE Stringify(Head(xs))
         IN  IF Len(xs) = 1 THEN one
             ELSE one \o <<",">> \o StringifyAll(Tail(xs), members)

(***************************************************************************)
(* The build: its environment and the values templates hand to the filters *)
(***************************************************************************)
\* bounds of the model
MaxMs  == 1      \* the clock is read at 0..MaxMs milliseconds after midnight
MaxLen == 2      \* limits up to MaxLen, texts up to MaxLen + 1 characters

\* ISO 8601 text of a day and of an instant
ISODate(day) ==
    LET c == CivilFromDays(day)
    IN  Pad(DecStr(c.year), 4) \o <<"-">> \o Pad(DecStr(c.month), 2)
            \o <<"-">> \o Pad(DecStr(c.day), 2)

ISOInstant(time) ==
    LET s == time.ms \div 1000
    IN  ISODate(time.day) \o <<"T">> \o Pad(DecStr(s \div 3600), 2) \o <<":">>
            \o Pad(DecStr((s \div 60) % 60), 2) \o <<":">> \o Pad(DecStr(s % 60), 2)
            \o <<".">> \o Pad(DecStr(time.ms % 1000), 3) \o <<"Z">>

\* the day the build runs
StartDay == DaysFromCivil(2026, 11, 1)

\* the instants at which the clock is read
Clock == {Time(StartDay + d, m) : d \in {0, ClosingDays}, m \in 0..MaxMs}

\* offsets of the local time zone from UTC, in minutes
Zones == {0 - 8 * 60, 9 * 60}

FarFuture == <<"2", "0", "9", "9", "-", "0", "1", "-", "0", "1">>
NotADate  == <<"n", "o", "t", "-", "a", "-", "d", "a", "t", "e">>
KeyDeadline    == <<"d", "e", "a", "d", "l", "i", "n", "e">>
KeyDescription == <<"d", "e", "s", "c", "r", "i", "p", "t", "i", "o", "n">>

\* a text of n characters, no two neighbours alike
Text(n) == [i \in 1..n |-> Digits[(i % 10) + 1]]

\* deadlines that parse: today, yesterday, the end of the window seen from
\* StartDay, one millisecond past it, two windows out, and the far future
ValidDeadlines ==
    { ISODate(StartDay), ISODate(StartDay - 1), ISODate(StartDay + ClosingDays),
      ISOInstant(Time(StartDay + ClosingDays, 1)),
      ISODate(StartDay + 2 * ClosingDays), FarFuture }

\* values a template passes as a deadline
DeadlineValues ==
    {Str(d) : d \in ValidDeadlines}
        \cup { Undefined, Null, Str(<< >>), Str(NotADate), Num(0), Num(12345),
               Obj(<< >>), Arr(<<Str(ISODate(StartDay + ClosingDays))>>), Sym }

\* values a template passes as a text, and the limits it passes
TextValues ==
    {Str(Text(n)) : n \in (0..(MaxLen + 1)) \cup {DefaultLength, DefaultLength + 1}}
        \cup {Undefined, Null, Num(12345), Arr(<<Num(1), Num(2), Num(3)>>)}

Limits == {Undefined} \cup {Num(k) : k \in (0 - 1)..MaxLen}

\* the records of data/opportunities.json
SpecExample == Arr(<<Obj(<< <<KeyDeadline, Str(FarFuture)>> >>)>>)

TwoRecords ==
    Arr(<< Obj(<< <<KeyDeadline, Str(ISODate(StartDay + ClosingDays))>>,
                  <<KeyDescription, Str(Text(MaxLen + 1))>> >>),
           Obj(<< <<KeyDeadline, Null>>, <<KeyDescription, Num(12345)>> >>) >>)

DataValues == {SpecExample, TwoRecords}

ValidTexts == {Stringify(v) : v \in DataValues}

\* texts that are not JSON: the empty file, a file cut short, trailing garbage
MalformedTexts ==
    { << >>,
      SubSeq(Stringify(SpecExample), 1, Len(Stringify(SpecExample)) - 1),
      Stringify(TwoRecords) \o <<"x">> }

Absent == [exists |-> FALSE, text |-> << >>]

Files == {Absent} \cup {[exists |-> TRUE, text |-> t] : t \in ValidTexts \cup MalformedTexts}

\* the values of field `key` over the loaded records (undefined where a record lacks it)
FieldValues(data, key) ==
    IF data.t # "array" THEN {}
    ELSE { LET r == data.v[i]
           IN  IF r.t = "object" /\ \E j \in 1..Len(r.v) : r.v[j][1] = key
               THEN r.v[CHOOSE j \in 1..Len(r.v) : r.v[j][1] = key][2]
               ELSE Undefined
           : i \in 1..Len(data.v) }

(***************************************************************************)
(* State                                                                   *)
(***************************************************************************)
VARIABLES
    pc,             \* "config": data not loaded; "render": templates run; "failed"
    file,           \* data/opportunities.json: [exists, text]
    opportunities,  \* the completion of the data loader, NotLoaded before it ran
    now,            \* the system clock
    tz,             \* the local zone's offset, in minutes
    call,           \* the last filter call: filter, arguments, time and completion
    probe           \* an earlier call that returned true, kept for comparison

vars == <<pc, file, opportunities, now, tz, call, probe>>

NotLoaded == [kind |-> "none", value |-> Undefined]

NoCall == [filter |-> "none", args |-> << >>, at |-> NaNTime, outcome |-> Return(Undefined)]

Init ==
    /\ pc = "config"
    /\ file \in Files
    /\ opportunities = NotLoaded
    /\ now \in Clock
    /\ tz \in Zones
    /\ call = NoCall
    /\ probe = NoCall

\* the loader with the parse wrapped in a try that falls back to the empty list
loadOpportunities_swallow(f) ==
    IF f.exists
    THEN (IF JSONParse(f.text).kind = "throw" THEN Return(Arr(<< >>)) ELSE JSONParse(f.text))
    ELSE Return(Arr(<< >>))

\* the callback of addGlobalData("opportunities")
loadOpportunities(f) ==
    IF f.exists THEN JSONParse(f.text) ELSE Return(Arr(<< >>))

\* the engine runs the loader once; an exception leaving it ends the build
Load ==
    /\ pc = "config"
    /\ opportunities' = loadOpportunities(file)
    /\ pc' = IF opportunities'.kind = "return" THEN "render" ELSE "failed"
    /\ UNCHANGED <<file, now, tz, call, probe>>

DeadlineArgs == DeadlineValues \cup FieldValues(opportunities.value, KeyDeadline)

TextArgs == TextValues \cup FieldValues(opportunities.value, KeyDescription)

Called(f, args, out) == [filter |-> f, args |-> args, at |-> now, outcome |-> out]

CallFormatDate ==
    /\ pc = "render"
    /\ \E dateStr \in DeadlineArgs :
           call' = Called("formatDate", <<dateStr>>, formatDate(dateStr, tz))
    /\ UNCHANGED <<pc, file, opportunities, now, tz, probe>>

CallIsClosingSoon ==
    /\ pc = "render"
    /\ \E dateStr \in DeadlineArgs :
           call' = Called("isClosingSoon", <<dateStr>>, isClosingSoon(dateStr, now))
    /\ UNCHANGED <<pc, file, opportunities, now, tz, probe>>

\* isExpired reading a clock value kept from the call before
CallIsExpired_staleClock ==
    /\ pc = "render"
    /\ \E dateStr \in DeadlineArgs :
           call' = Called("isExpired", <<dateStr>>,
                          isExpired(dateStr, IF call = NoCall THEN now ELSE call.at))
    /\ UNCHANGED <<pc, file, opportunities, now, tz, probe>>

CallIsExpired ==
    /\ pc = "render"
    /\ \E dateStr \in DeadlineArgs :
           call' = Called("isExpired", <<dateStr>>, isExpired(dateStr, now))
    /\ UNCHANGED <<pc, file, opportunities, now, tz, probe>>

CallTruncate ==
    /\ pc = "render"
    /\ \E str \in TextArgs, length \in Limits :
           call' = Called("truncate", <<str, length>>, truncate(str, length))
    /\ UNCHANGED <<pc, file, opportunities, now, tz, probe>>

\* time passes while the templates render
Tick ==
    /\ pc = "render"
    /\ \E t \in Clock : Before(now, t) /\ now' = t
    /\ UNCHANGED <<pc, file, opportunities, tz, call, probe>>

Next ==
    \/ Load
    \/ CallFormatDate
    \/ CallIsClosingSoon
    \/ CallIsExpired
    \/ CallTruncate
    \/ Tick

Spec == Init /\ [][Next]_vars

\* History only, no step of the program: keep the classification call that just
\* returned true, so that later calls on the same deadline can be compared with it
Remember ==
    /\ probe = NoCall
    /\ call.filter \in {"isClosingSoon", "isExpired"}
    /\ call.outcome = Return(Bool(TRUE))
    /\ probe' = call
    /\ UNCHANGED <<pc, file, opportunities, now, tz, call>>

\* the classification filters alone, with an earlier result kept
NextObserved ==
    \/ Load
    \/ CallIsClosingSoon
    \/ CallIsExpired
    \/ Tick
    \/ Remember

SpecObserved == Init /\ [][NextObserved]_vars

(***************************************************************************)
(* Properties                                                              *)
(***************************************************************************)
\* the time value of a value that converts to a valid date, NaNTime otherwise
DateOf(x) == LET d == NewDate(x) IN IF d.kind = "return" THEN d.value ELSE NaNTime

Absent0(x) == x \in {Undefined, Null, Str(<< >>)}

True  == Return(Bool(TRUE))
False == Return(Bool(FALSE))

\* C1: isClosingSoon(dateStr) is true exactly when dateStr parses as a valid
\* date D with 0 < D - now <= 14 days: D is after now and not after now + 14 days.
C1_ClosingSoonIff ==
    call.filter = "isClosingSoon" =>
        LET D     == DateOf(call.args[1])
            limit == [valid |-> TRUE, day |-> call.at.day + 14, ms |-> call.at.ms]
            soon  == /\ D.valid
                     /\ (call.at.day < D.day \/ (call.at.day = D.day /\ call.at.ms < D.ms))
                     /\ (D.day < limit.day \/ (D.day = limit.day /\ D.ms <= limit.ms))
        IN  /\ call.outcome = (IF soon THEN True ELSE False)
            /\ Absent0(call.args[1]) => call.outcome = False

\* C1 witness: a deadline exactly 14 days after now is closing soon
C1_Witness ==
    /\ call.filter = "isClosingSoon"
    /\ call.args = <<Str(ISODate(StartDay + 14))>>
    /\ call.at = Time(StartDay, 0)
    /\ call.outcome = True

\* C2 as stated: isExpired(dateStr) is true exactly when dateStr parses as a
\* valid date D strictly before now; false when D equals now and for absent or
\* unparseable input.
C2_ExpiredIffAsStated ==
    call.filter = "isExpired" =>
        LET D    == DateOf(call.args[1])
            past == /\ ~Absent0(call.args[1])
                    /\ D.valid
                    /\ (D.day < call.at.day \/ (D.day = call.at.day /\ D.ms < call.at.ms))
        IN  call.outcome = (IF past THEN True ELSE False)

\* C2: isExpired(dateStr) is true exactly when dateStr is truthy (not absent,
\* empty, 0 or false) and converts to a valid date D strictly before now; it is
\* false when D equals now and for absent or unparseable input.
C2_ExpiredIff ==
    call.filter = "isExpired" =>
        LET D    == DateOf(call.args[1])
            past == /\ ToBoolean(call.args[1])
                    /\ D.valid
                    /\ (D.day < call.at.day \/ (D.day = call.at.day /\ D.ms < call.at.ms))
        IN  /\ call.outcome = (IF past THEN True ELSE False)
            /\ (Absent0(call.args[1]) \/ ~D.valid) => call.outcome = False
            /\ (D.valid /\ D.day = call.at.day /\ D.ms = call.at.ms) => call.outcome = False

\* C2 witness: a deadline one millisecond before now is expired
C2_Witness ==
    /\ call.filter = "isExpired"
    /\ call.args = <<Str(ISODate(StartDay))>>
    /\ call.at = Time(StartDay, 1)
    /\ call.outcome = True

\* C3: at one evaluation time, isExpired and isClosingSoon are never both true
\* of the same input.
C3_MutuallyExclusive ==
    /\ (call.filter = "isClosingSoon" /\ call.outcome = True)
           => isExpired(call.args[1], call.at) # True
    /\ (call.filter = "isExpired" /\ call.outcome = True)
           => isClosingSoon(call.args[1], call.at) # True

\* C3 witness: a call of isClosingSoon that returned true
C3_Witness ==
    /\ call.filter = "isClosingSoon"
    /\ call.outcome = True
    /\ isExpired(call.args[1], call.at) = False

\* C4: for a string (or absent) s, truncate(s, n) is "" when s is absent or
\* empty, s when length(s) <= n, and else the first n characters of s followed
\* by "..."; without a limit the limit is 200.
C4_Truncate ==
    (call.filter = "truncate" /\ call.args[1].t \in {"string", "undefined", "null"}) =>
        LET s == call.args[1]
            n == IF call.args[2] = Undefined THEN 200 ELSE call.args[2].v
        IN  /\ call.outcome.kind = "return"
            /\ call.outcome.value.t = "string"
            /\ call.outcome.value.v =
                   (IF s.t # "string" \/ s.v = << >> THEN << >>
                    ELSE IF Len(s.v) <= n THEN s.v
                    ELSE SubSeq(s.v, 1, n) \o <<".", ".", ".">>)
            /\ call.args[2] = Undefined => call.outcome = truncate(s, Num(200))

\* C4 witness: a text of 201 characters cut at the default limit
C4_Witness ==
    /\ call.filter = "truncate"
    /\ call.args[2] = Undefined
    /\ call.args[1].t = "string"
    /\ Len(call.args[1].v) = 201
    /\ Len(call.outcome.value.v) = 203

\* a short month name, a day, a comma and a four-digit year: "Nov 15, 2026"
IsMonthDayYear(cs) ==
    /\ Len(cs) \in {11, 12}
    /\ \E m \in 1..12 : SubSeq(cs, 1, 3) = MonthShort[m]
    /\ cs[4] = " "
    /\ AllDigits(SubSeq(cs, 5, Len(cs) - 6))
    /\ DecVal(SubSeq(cs, 5, Len(cs) - 6)) \in 1..31
    /\ SubSeq(cs, Len(cs) - 5, Len(cs) - 4) = <<",", " ">>
    /\ AllDigits(SubSeq(cs, Len(cs) - 3, Len(cs)))

\* C5: formatDate gives "No deadline" for an absent or empty input, gives the
\* input back for a non-empty input that is no valid date, and replaces only
\* an input that is a valid date by a month-day-year text.
C5_FormatDate ==
    call.filter = "formatDate" =>
        LET x == call.args[1]
            D == DateOf(x)
        IN  /\ call.outcome.kind = "return"
            /\ Absent0(x) =>
                   call.outcome.value = Str(<<"N", "o", " ", "d", "e", "a", "d", "l", "i", "n", "e">>)
            /\ (ToBoolean(x) /\ ~D.valid) => call.outcome.value = x
            /\ (ToBoolean(x) /\ D.valid) =>
                   /\ call.outcome.value.t = "string"
                   /\ IsMonthDayYear(call.outcome.value.v)
            /\ (call.outcome.value.t = "string" /\ IsMonthDayYear(call.outcome.value.v))
                   => D.valid

\* C5 witness: an unparseable text comes back unchanged
C5_Witness ==
    /\ call.filter = "formatDate"
    /\ call.args = <<Str(NotADate)>>
    /\ call.outcome = Return(Str(NotADate))

\* C6: every filter call returns a value, for every input value; none raises
\* an exception to its caller.
C6_FiltersNeverThrow ==
    call.filter \in {"formatDate", "isClosingSoon", "isExpired", "truncate"}
        => call.outcome.kind = "return"

\* C7: the loader returns the empty list when the file is absent, the records
\* of the file when it holds valid JSON, and fails when it holds anything else.
C7_Loader ==
    opportunities # NotLoaded =>
        /\ ~file.exists => opportunities = Return(Arr(<< >>))
        /\ \A v \in DataValues :
               (file.exists /\ file.text = Stringify(v)) => opportunities = Return(v)
        /\ (file.exists /\ file.text \in MalformedTexts) =>
               /\ opportunities.kind = "throw"
               /\ pc = "failed"
        /\ pc = "render" <=> opportunities.kind = "return"

\* C7 witness: the file of the end-to-end example, loaded
C7_Witness ==
    /\ file.exists
    /\ opportunities = Return(SpecExample)
    /\ pc = "render"

\* what a filter computes from its arguments, the clock and the zone
Apply(f, args, time, zone) ==
    CASE f = "formatDate"    -> formatDate(args[1], zone)
      [] f = "isClosingSoon" -> isClosingSoon(args[1], time)
      [] f = "isExpired"     -> isExpired(args[1], time)
      [] f = "truncate"      -> truncate(args[1], args[2])

C9_TruncateIdempotent ==
    (call.filter = "truncate" /\ call.args[1].t = "string" /\ call.outcome.kind = "return")
        => truncate(call.outcome.value, call.args[2]) = call.outcome

\* C9 witness: the first call shortened the text, so its result is longer than the limit
C9_Witness ==
    /\ call.filter = "truncate"
    /\ call.args[1].t = "string"
    /\ call.args[2] # Undefined
    /\ call.args[2].v >= 1
    /\ Len(call.args[1].v) > call.args[2].v
    /\ Len(call.outcome.value.v) > call.args[2].v

\* C10: while time only advances, a deadline seen expired stays expired and is
\* never closing soon again, and a deadline seen closing soon is never again
\* more than 14 days out.
C10_OnlyForward ==
    probe # NoCall =>
        /\ (probe.filter = "isExpired" /\ call.args = probe.args) =>
               /\ call.filter = "isExpired" => call.outcome = True
               /\ call.filter = "isClosingSoon" => call.outcome = False
        /\ probe.filter = "isClosingSoon" =>
               LET D == DateOf(probe.args[1])
               IN  D.day < now.day + 14 \/ (D.day = now.day + 14 /\ D.ms <= now.ms)

\* C10 witness: isExpired called again on the deadline, later than the call kept
C10_Witness ==
    /\ probe.filter = "isExpired"
    /\ call.filter = "isExpired"
    /\ call.args = probe.args
    /\ Before(probe.at, call.at)

====
